---- MODULE Spec2Model ----
(***************************************************************************)
(* fastfea: the transformer composition algebra of src/src/transformer.hpp *)
(* (Transformer, LazyTransformer, Binarizer, Pipeline, Combiner, combine,  *)
(* operator+ and operator|), driven the way src/src/main.cpp and           *)
(* src/test/transformer_test.cpp drive it.                                 *)
(*                                                                         *)
(* Objects live in an arena: a program is a sequence of constructor calls, *)
(* node i is the object made by the i-th call, and a shared_ptr is the     *)
(* index of the object it points to.  The fields of the objects are the    *)
(* variables, each a function over the nodes of the program.               *)
(***************************************************************************)
EXTENDS Integers, Sequences, FiniteSets, TLC

VARIABLES
    prog,            \* which program (object graph) was constructed
    _is_finalized,   \* Transformer::_is_finalized, per node
    _count,          \* Binarizer::_count, per node
    _data_to_val,    \* Binarizer::_data_to_val, per node
    _data,           \* Pipeline::_data (the queue), per node
    sent,            \* history: the values a Pipeline handed to _second->step
    dataset,         \* history: the samples the step() of a Pipeline, or of an
                     \* object the driver holds, received before its finalize()
    finalize_calls,  \* history: how many times finalize() was invoked on a node
    first_seen,      \* history: the distinct values a Binarizer's step() received,
                     \* in the order of their first receipt
    early_steps,     \* history: how many step() calls an unfinalized Pipeline
                     \* received while its _first was not finalized
    log,             \* history: the virtual calls (step, finalize) and the flag
                     \* assignments made during the driver's last call, in order
    ret              \* the driver's last call and what it returned

vars == <<prog, _is_finalized, _count, _data_to_val, _data, sent, dataset,
          finalize_calls, first_seen, early_steps, log, ret>>

(***************************************************************************)
(* Bounds of the model.                                                    *)
(***************************************************************************)
MaxSteps == 4
MaxFinalize == 2

(***************************************************************************)
(* Values.  Every C++ value carries its static type as a tag, so that the  *)
(* overloads of combine can be resolved the way the compiler resolves      *)
(* them.  A double is modelled by the integer it equals (1.0 and 0.0).     *)
(***************************************************************************)
Str(s) == [k |-> "string", v |-> s]
Dat(f, l) == [k |-> "Data", v |-> <<f, l>>]
Vec(s) == [k |-> "vector", v |-> s]
Tup(s) == [k |-> "tuple", v |-> s]
Num(i) == [k |-> "int", v |-> i]
Void == [k |-> "void", v |-> <<>>]
\* std::out_of_range thrown by unordered_map::at
OutOfRange == [k |-> "out_of_range", v |-> <<>>]

FirstNames == {"Mike", "Bill"}
LastNames == {"Jordan", "James"}
Samples == {Dat(f, l) : f \in FirstNames, l \in LastNames}

data1 == Dat("Mike", "Jordan")
data2 == Dat("Mike", "James")
data3 == Dat("Bill", "Jordan")
data4 == Dat("Bill", "James")

get_firstname_lambda(sample) == Str(sample.v[1])
get_lastname_lambda(sample) == Str(sample.v[2])

\* std::string::length, on the strings of the model
length(s) ==
    CASE s = "Mike" -> 4
      [] s = "Bill" -> 4
      [] s = "Jordan" -> 6
      [] s = "James" -> 5
length_lambda(str) == Num(length(str.v))

(***************************************************************************)
(* Programs: the object graphs the driver builds with make_transformer,    *)
(* make_lazy_transformer, operator+ and operator|.                         *)
(***************************************************************************)
make_lazy_transformer(f) ==
    [kind |-> "LazyTransformer", first |-> 0, second |-> 0, func |-> f]
make_transformer ==
    [kind |-> "Binarizer", first |-> 0, second |-> 0, func |-> "none"]
Plus(a, b) == [kind |-> "Pipeline", first |-> a, second |-> b, func |-> "none"]
Bar(a, b) == [kind |-> "Combiner", first |-> a, second |-> b, func |-> "none"]

fn == make_lazy_transformer("firstname")
ln == make_lazy_transformer("lastname")

Programs ==
    [ binarizer    |-> <<make_transformer>>,
      \* (get_firstname | get_lastname) + binarizer
      main         |-> <<fn, ln, make_transformer, Bar(1, 2), Plus(4, 3)>>,
      \* get_firstname + binarizer
      lazy_bin     |-> <<fn, make_transformer, Plus(1, 2)>>,
      \* binarizer + binarizer
      bin_bin      |-> <<make_transformer, make_transformer, Plus(1, 2)>>,
      \* (binarizer + binarizer) + binarizer
      deep         |-> <<make_transformer, make_transformer, Plus(1, 2),
                         make_transformer, Plus(3, 4)>>,
      \* lastname + length
      lazy_lazy    |-> <<ln, make_lazy_transformer("length"), Plus(1, 2)>>,
      \* firstname | lastname
      comb2        |-> <<fn, ln, Bar(1, 2)>>,
      \* firstname | lastname | firstname
      comb3_left   |-> <<fn, ln, Bar(1, 2), Bar(3, 1)>>,
      \* firstname | (firstname | lastname)
      comb3_right  |-> <<fn, ln, Bar(1, 2), Bar(1, 3)>>,
      \* (firstname | lastname) | (lastname | firstname)
      comb4        |-> <<fn, ln, Bar(1, 2), Bar(2, 1), Bar(3, 4)>>,
      \* (firstname + binarizer) | (lastname + binarizer)
      comb_vec     |-> <<fn, ln, make_transformer, make_transformer,
                         Plus(1, 3), Plus(2, 4), Bar(5, 6)>>,
      \* ((firstname + binarizer) | (lastname + binarizer)) + binarizer
      nested       |-> <<fn, ln, make_transformer, make_transformer,
                         Plus(1, 3), Plus(2, 4), Bar(5, 6),
                         make_transformer, Plus(7, 8)>>,
      \* c = firstname | lastname;  p = c + binarizer;  q = c | firstname
      shared_first |-> <<fn, ln, Bar(1, 2), make_transformer,
                         Plus(3, 4), Bar(3, 1)>>,
      \* c = firstname | lastname;  s = binarizer | binarizer;
      \* p = c + s;  r = c + s
      shared_second |-> <<fn, ln, Bar(1, 2), make_transformer,
                          make_transformer, Bar(4, 5), Plus(3, 6), Plus(3, 6)>>
    ]

\* the handles the driver calls step, finalize and transform on
Handles ==
    [ binarizer |-> {1}, main |-> {5}, lazy_bin |-> {3}, bin_bin |-> {3},
      deep |-> {5}, lazy_lazy |-> {3},
      comb2 |-> {3}, comb3_left |-> {4}, comb3_right |-> {4}, comb4 |-> {5},
      comb_vec |-> {7}, nested |-> {9}, shared_first |-> {5, 6},
      shared_second |-> {7, 8} ]

\* the samples the driver draws from (main.cpp's dataset, or a part of it)
Inputs ==
    [ binarizer |-> Samples, main |-> Samples,
      lazy_bin |-> {data1, data2, data3}, bin_bin |-> {data1, data2, data3},
      deep |-> {data1, data2, data3}, lazy_lazy |-> {data1, data4},
      comb2 |-> {data1, data4}, comb3_left |-> {data1, data4},
      comb3_right |-> {data1, data4}, comb4 |-> {data1, data4},
      comb_vec |-> {data1, data2, data3}, nested |-> {data1, data2, data3},
      shared_first |-> {data1, data4}, shared_second |-> {data1, data4} ]

Nodes(p) == 1..Len(Programs[p])
Kind(p, n) == Programs[p][n].kind
First(p, n) == Programs[p][n].first
Second(p, n) == Programs[p][n].second

(***************************************************************************)
(* The heap: the fields of all objects, as one record, so that a call can  *)
(* be a function from heap to heap.  thrown is an exception in flight: the *)
(* statements after a throwing call do not run.                            *)
(***************************************************************************)
Heap ==
    [ _is_finalized |-> _is_finalized, _count |-> _count,
      _data_to_val |-> _data_to_val, _data |-> _data, sent |-> sent,
      dataset |-> dataset, finalize_calls |-> finalize_calls,
      first_seen |-> first_seen, early_steps |-> early_steps, log |-> <<>>,
      thrown |-> FALSE ]

Throw(h) == [h EXCEPT !.thrown = TRUE]

(***************************************************************************)
(* Constructors: the value each one gives _is_finalized.                   *)
(***************************************************************************)
\* a Pipeline constructor that leaves the flag false, as Combiner's does
Constructed_pipeline_unfinalized(p, n) ==
    CASE Kind(p, n) = "LazyTransformer" -> TRUE
      [] Kind(p, n) = "Binarizer" -> FALSE
      [] Kind(p, n) = "Pipeline" -> FALSE
      [] Kind(p, n) = "Combiner" -> FALSE

RECURSIVE Constructed(_, _)
Constructed(p, n) ==
    CASE Kind(p, n) = "LazyTransformer" -> TRUE
      [] Kind(p, n) = "Binarizer" -> FALSE
      [] Kind(p, n) = "Pipeline" ->
            IF Constructed(p, First(p, n)) /\ Constructed(p, Second(p, n))
            THEN TRUE ELSE FALSE
      [] Kind(p, n) = "Combiner" -> FALSE

(***************************************************************************)
(* combine: the five overloads, chosen by the static types of the two      *)
(* arguments (the more specialised overload wins).                         *)
(***************************************************************************)
\* a combine whose (T1, tuple) overload puts the scalar after the tuple
combine_scalar_last(first_out, second_out) ==
    CASE first_out = OutOfRange \/ second_out = OutOfRange -> OutOfRange
      [] first_out.k = "vector" /\ second_out.k = "vector" ->
            Vec(first_out.v \o second_out.v)
      [] first_out.k = "tuple" /\ second_out.k = "tuple" ->
            Tup(first_out.v \o second_out.v)
      [] first_out.k = "tuple" /\ second_out.k # "tuple" ->
            Tup(first_out.v \o <<second_out>>)
      [] first_out.k # "tuple" /\ second_out.k = "tuple" ->
            Tup(second_out.v \o <<first_out>>)
      [] OTHER -> Tup(<<first_out, second_out>>)

combine(first_out, second_out) ==
    CASE first_out = OutOfRange \/ second_out = OutOfRange -> OutOfRange
      [] first_out.k = "vector" /\ second_out.k = "vector" ->
            Vec(first_out.v \o second_out.v)
      [] first_out.k = "tuple" /\ second_out.k = "tuple" ->
            Tup(first_out.v \o second_out.v)
      [] first_out.k = "tuple" /\ second_out.k # "tuple" ->
            Tup(first_out.v \o <<second_out>>)
      [] first_out.k # "tuple" /\ second_out.k = "tuple" ->
            Tup(<<first_out>> \o second_out.v)
      [] OTHER -> Tup(<<first_out, second_out>>)

(***************************************************************************)
(* transform (const): a value, or OutOfRange when a Binarizer on the way   *)
(* throws.  An exception thrown by an inner call propagates.               *)
(***************************************************************************)
RECURSIVE transform(_, _, _, _)

LazyTransformer_transform(p, h, n, sample) ==
    CASE Programs[p][n].func = "firstname" -> get_firstname_lambda(sample)
      [] Programs[p][n].func = "lastname" -> get_lastname_lambda(sample)
      [] Programs[p][n].func = "length" -> length_lambda(sample)

\* a Binarizer::transform whose loop runs i = 1 .. _count
Binarizer_transform_from_one(p, h, n, sample) ==
    IF sample \notin DOMAIN h._data_to_val[n]
    THEN OutOfRange
    ELSE LET val == h._data_to_val[n][sample]
         IN  Vec([i \in 1..h._count[n] |-> IF val = i THEN 1 ELSE 0])

\* a Binarizer::transform that answers a value step() never received with
\* the all-zero vector instead of throwing
Binarizer_transform_unknown_is_zero(p, h, n, sample) ==
    IF sample \notin DOMAIN h._data_to_val[n]
    THEN Vec([i \in 1..h._count[n] |-> 0])
    ELSE LET val == h._data_to_val[n][sample]
         IN  Vec([i \in 1..h._count[n] |-> IF val = i - 1 THEN 1 ELSE 0])

Binarizer_transform(p, h, n, sample) ==
    IF sample \notin DOMAIN h._data_to_val[n]
    THEN OutOfRange
    ELSE LET val == h._data_to_val[n][sample]
         IN  Vec([i \in 1..h._count[n] |-> IF val = i - 1 THEN 1 ELSE 0])

Pipeline_transform(p, h, n, sample) ==
    transform(p, h, Second(p, n), transform(p, h, First(p, n), sample))

Combiner_transform(p, h, n, sample) ==
    combine(transform(p, h, First(p, n), sample),
            transform(p, h, Second(p, n), sample))

transform(p, h, n, sample) ==
    IF sample = OutOfRange THEN OutOfRange
    ELSE CASE Kind(p, n) = "LazyTransformer" -> LazyTransformer_transform(p, h, n, sample)
           [] Kind(p, n) = "Binarizer" -> Binarizer_transform(p, h, n, sample)
           [] Kind(p, n) = "Pipeline" -> Pipeline_transform(p, h, n, sample)
           [] Kind(p, n) = "Combiner" -> Combiner_transform(p, h, n, sample)

(***************************************************************************)
(* step.  A statement that follows a call does not run when the call       *)
(* threw: every helper below passes a heap with thrown set through.        *)
(***************************************************************************)
RECURSIVE step(_, _, _, _)

\* Transformer::step, inherited by LazyTransformer
Transformer_step(p, h, n, sample) == h

\* a Binarizer::step that stores ++_count instead of _count++
Binarizer_step_preincrement(p, h, n, sample) ==
    IF sample \notin DOMAIN h._data_to_val[n]
    THEN [h EXCEPT !._data_to_val[n] = @ @@ (sample :> h._count[n] + 1),
                   !._count[n] = @ + 1]
    ELSE h

\* a Binarizer::step without the find(): every call assigns the next index
Binarizer_step_no_find(p, h, n, sample) ==
    [h EXCEPT !._data_to_val[n] = (sample :> h._count[n]) @@ @,
              !._count[n] = @ + 1]

Binarizer_step(p, h, n, sample) ==
    IF sample \notin DOMAIN h._data_to_val[n]
    THEN [h EXCEPT !._data_to_val[n] = @ @@ (sample :> h._count[n]),
                   !._count[n] = @ + 1]
    ELSE h

\* if (!m->is_finalized()) { m->step(sample); }
StepUnlessFinalized(p, h, m, sample) ==
    IF h.thrown \/ h._is_finalized[m] THEN h ELSE step(p, h, m, sample)

\* _second->step(mid), mid being the value of _first->transform(...); the value
\* handed over is logged
Feed(p, h, n, mid) ==
    IF mid = OutOfRange
    THEN Throw(h)
    ELSE step(p, [h EXCEPT !.sent[n] = Append(@, mid)], Second(p, n), mid)

\* _second->step(_first->transform(sample))
FeedSecond(p, h, n, sample) ==
    Feed(p, h, n, transform(p, h, First(p, n), sample))

\* if (!_second->is_finalized()) { _data.emplace(sample); }
Buffer(p, h, n, sample) ==
    IF h.thrown \/ h._is_finalized[Second(p, n)]
    THEN h
    ELSE [h EXCEPT !._data[n] = Append(@, sample)]

\* a Pipeline::step that feeds _second at once, from a _first still fitting
Pipeline_step_eager(p, h, n, sample) ==
    IF h._is_finalized[n]
    THEN h
    ELSE IF h._is_finalized[First(p, n)]
         THEN IF ~h._is_finalized[Second(p, n)]
              THEN FeedSecond(p, h, n, sample)
              ELSE h
         ELSE FeedSecond(p, step(p, h, First(p, n), sample), n, sample)

\* a Pipeline::step that buffers the sample whether or not _first is finalized
Pipeline_step_always_buffers(p, h, n, sample) ==
    IF h._is_finalized[n]
    THEN h
    ELSE IF h._is_finalized[First(p, n)]
         THEN IF ~h._is_finalized[Second(p, n)]
              THEN Buffer(p, FeedSecond(p, h, n, sample), n, sample)
              ELSE h
         ELSE Buffer(p, step(p, h, First(p, n), sample), n, sample)

\* a Pipeline::step that runs on with a flag recomputed the way the
\* constructor computes it
Pipeline_step_recompute(p, h, n, sample) ==
    IF h._is_finalized[n]
    THEN [h EXCEPT !._is_finalized[n] =
              h._is_finalized[First(p, n)] /\ h._is_finalized[Second(p, n)]]
    ELSE IF h._is_finalized[First(p, n)]
         THEN IF ~h._is_finalized[Second(p, n)]
              THEN FeedSecond(p, h, n, sample)
              ELSE h
         ELSE Buffer(p, step(p, h, First(p, n), sample), n, sample)

\* a Pipeline::step without the leading "if (this->is_finalized()) return"
Pipeline_step_unguarded(p, h, n, sample) ==
    IF h._is_finalized[First(p, n)]
    THEN IF ~h._is_finalized[Second(p, n)]
         THEN FeedSecond(p, h, n, sample)
         ELSE h
    ELSE Buffer(p, step(p, h, First(p, n), sample), n, sample)

\* a Pipeline::step that buffers the sample without _first->step(sample)
Pipeline_step_buffer_only(p, h, n, sample) ==
    IF h._is_finalized[n]
    THEN h
    ELSE IF h._is_finalized[First(p, n)]
         THEN IF ~h._is_finalized[Second(p, n)]
              THEN FeedSecond(p, h, n, sample)
              ELSE h
         ELSE Buffer(p, h, n, sample)

Pipeline_step(p, h, n, sample) ==
    IF h._is_finalized[n]
    THEN h
    ELSE IF h._is_finalized[First(p, n)]
         THEN IF ~h._is_finalized[Second(p, n)]
              THEN FeedSecond(p, h, n, sample)
              ELSE h
         ELSE Buffer(p, step(p, h, First(p, n), sample), n, sample)

Combiner_step(p, h, n, sample) ==
    StepUnlessFinalized(p,
        StepUnlessFinalized(p, h, First(p, n), sample),
        Second(p, n), sample)

\* the history variables, on entry to n->step(sample)
Observe(p, h, n, sample) ==
    [h EXCEPT
       !.log = Append(@, <<"step", n>>),
       !.early_steps[n] =
           IF /\ Kind(p, n) = "Pipeline"
              /\ ~h._is_finalized[n]
              /\ ~h._is_finalized[First(p, n)]
           THEN @ + 1 ELSE @,
       !.dataset[n] =
           IF /\ h.finalize_calls[n] = 0
              /\ (n \in Handles[p] \/ Kind(p, n) = "Pipeline")
           THEN Append(@, sample) ELSE @,
       !.first_seen[n] =
           IF /\ Kind(p, n) = "Binarizer"
              /\ \A i \in 1..Len(@) : @[i] # sample
           THEN Append(@, sample) ELSE @]

\* the virtual call n->step(sample)
step(p, h, n, sample) ==
    CASE Kind(p, n) = "LazyTransformer" ->
            Transformer_step(p, Observe(p, h, n, sample), n, sample)
      [] Kind(p, n) = "Binarizer" ->
            Binarizer_step(p, Observe(p, h, n, sample), n, sample)
      [] Kind(p, n) = "Pipeline" ->
            Pipeline_step(p, Observe(p, h, n, sample), n, sample)
      [] Kind(p, n) = "Combiner" ->
            Combiner_step(p, Observe(p, h, n, sample), n, sample)

(***************************************************************************)
(* finalize                                                                *)
(***************************************************************************)
RECURSIVE finalize(_, _, _)
RECURSIVE Drain(_, _, _)

\* Transformer::finalize, inherited by LazyTransformer and by Binarizer
Transformer_finalize(p, h, n) == h

\* if (!m->is_finalized()) { m->finalize(); }
FinalizeUnlessFinalized(p, h, m) ==
    IF h.thrown \/ h._is_finalized[m] THEN h ELSE finalize(p, h, m)

\* _data.pop()
Pop(h, n) == IF h.thrown THEN h ELSE [h EXCEPT !._data[n] = Tail(@)]

\* a drain with "if" for "while": one buffered sample per finalize()
Drain_once(p, h, n) ==
    IF h.thrown \/ h._data[n] = <<>>
    THEN h
    ELSE Pop(FeedSecond(p, h, n, Head(h._data[n])), n)

\* while (!_data.empty()) { _second->step(_first->transform(_data.front())); _data.pop(); }
Drain(p, h, n) ==
    IF h.thrown \/ h._data[n] = <<>>
    THEN h
    ELSE Drain(p, Pop(FeedSecond(p, h, n, Head(h._data[n])), n), n)

\* _second->finalize(), after the loop
FinalizeAfter(p, h, m) == IF h.thrown THEN h ELSE finalize(p, h, m)

\* if (!_second->is_finalized()) { while ... ; _second->finalize(); }
ReplayAndFinalizeSecond(p, h, n) ==
    IF h.thrown \/ h._is_finalized[Second(p, n)]
    THEN h
    ELSE FinalizeAfter(p, Drain(p, h, n), Second(p, n))

\* this->_is_finalized = true
SetFinalized(h, n) ==
    IF h.thrown
    THEN h
    ELSE [h EXCEPT !._is_finalized[n] = TRUE, !.log = Append(@, <<"set", n>>)]

\* a Pipeline::finalize that finalizes _second without replaying the buffer
Pipeline_finalize_no_replay(p, h, n) ==
    SetFinalized(
        FinalizeUnlessFinalized(p,
            FinalizeUnlessFinalized(p, h, First(p, n)),
            Second(p, n)),
        n)

\* a Pipeline::finalize that replays the buffer and finalizes _second before
\* it finalizes _first
Pipeline_finalize_replay_first(p, h, n) ==
    SetFinalized(
        FinalizeUnlessFinalized(p,
            ReplayAndFinalizeSecond(p, h, n),
            First(p, n)),
        n)

Pipeline_finalize(p, h, n) ==
    SetFinalized(
        ReplayAndFinalizeSecond(p,
            FinalizeUnlessFinalized(p, h, First(p, n)),
            n),
        n)

Combiner_finalize(p, h, n) ==
    SetFinalized(
        FinalizeUnlessFinalized(p,
            FinalizeUnlessFinalized(p, h, First(p, n)),
            Second(p, n)),
        n)

\* the history variables, on entry to n->finalize()
Called(h, n) ==
    [h EXCEPT !.finalize_calls[n] = @ + 1, !.log = Append(@, <<"finalize", n>>)]

\* the virtual call n->finalize()
finalize(p, h, n) ==
    CASE Kind(p, n) = "LazyTransformer" -> Transformer_finalize(p, Called(h, n), n)
      [] Kind(p, n) = "Binarizer" -> Transformer_finalize(p, Called(h, n), n)
      [] Kind(p, n) = "Pipeline" -> Pipeline_finalize(p, Called(h, n), n)
      [] Kind(p, n) = "Combiner" -> Combiner_finalize(p, Called(h, n), n)

(***************************************************************************)
(* The driver.                                                             *)
(***************************************************************************)
\* the fields after the call, and what the call returned to the driver
Commit(h, call) ==
    /\ _is_finalized' = h._is_finalized
    /\ _count' = h._count
    /\ _data_to_val' = h._data_to_val
    /\ _data' = h._data
    /\ sent' = h.sent
    /\ dataset' = h.dataset
    /\ finalize_calls' = h.finalize_calls
    /\ first_seen' = h.first_seen
    /\ early_steps' = h.early_steps
    /\ log' = h.log
    /\ ret' = [op |-> call.op, node |-> call.node, arg |-> call.arg,
               val |-> IF h.thrown THEN OutOfRange ELSE Void]

RECURSIVE Sum(_, _)
Sum(f, S) ==
    IF S = {} THEN 0
    ELSE LET n == CHOOSE n \in S : TRUE IN f[n] + Sum(f, S \ {n})

\* samples the driver has presented so far during fitting
Presented == Sum([r \in Handles[prog] |-> Len(dataset[r])], Handles[prog])
\* finalize() calls the driver has made so far
Finalized == Sum(finalize_calls, Handles[prog])

Init ==
    /\ prog \in DOMAIN Programs
    /\ _is_finalized = [n \in Nodes(prog) |-> Constructed(prog, n)]
    /\ _count = [n \in Nodes(prog) |-> 0]
    /\ _data_to_val = [n \in Nodes(prog) |-> <<>>]
    /\ _data = [n \in Nodes(prog) |-> <<>>]
    /\ sent = [n \in Nodes(prog) |-> <<>>]
    /\ dataset = [n \in Nodes(prog) |-> <<>>]
    /\ finalize_calls = [n \in Nodes(prog) |-> 0]
    /\ first_seen = [n \in Nodes(prog) |-> <<>>]
    /\ early_steps = [n \in Nodes(prog) |-> 0]
    /\ log = <<>>
    /\ ret = [op |-> "new", node |-> 0, arg |-> Void, val |-> Void]

\* root->step(sample)
Step(r, sample) ==
    /\ finalize_calls[r] > 0 \/ Presented < MaxSteps
    /\ Commit(step(prog, Heap, r, sample), [op |-> "step", node |-> r, arg |-> Void])
    /\ UNCHANGED prog

\* root->finalize()
Finalize(r) ==
    /\ Finalized < MaxFinalize
    /\ Commit(finalize(prog, Heap, r), [op |-> "finalize", node |-> r, arg |-> Void])
    /\ UNCHANGED prog

\* out = root->transform(sample)
Transform(r, sample) ==
    /\ ret' = [op |-> "transform", node |-> r, arg |-> sample,
               val |-> transform(prog, Heap, r, sample)]
    /\ log' = <<>>
    /\ UNCHANGED <<prog, _is_finalized, _count, _data_to_val, _data, sent,
                   dataset, finalize_calls, first_seen, early_steps>>

DoStep == \E r \in Handles[prog], sample \in Inputs[prog] : Step(r, sample)
DoFinalize == \E r \in Handles[prog] : Finalize(r)
DoTransform ==
    \E r \in Handles[prog], sample \in Inputs[prog] : Transform(r, sample)

Next == DoStep \/ DoFinalize \/ DoTransform

Spec == Init /\ [][Next]_vars

(***************************************************************************)
(* Vocabulary of the properties.                                           *)
(***************************************************************************)
Pipelines(p) == {n \in Nodes(p) : Kind(p, n) = "Pipeline"}
Combiners(p) == {n \in Nodes(p) : Kind(p, n) = "Combiner"}
Binarizers(p) == {n \in Nodes(p) : Kind(p, n) = "Binarizer"}

\* the objects reachable from n through _first and _second, n included
RECURSIVE Reach(_, _)
Reach(p, n) ==
    IF Kind(p, n) \in {"Pipeline", "Combiner"}
    THEN {n} \cup Reach(p, First(p, n)) \cup Reach(p, Second(p, n))
    ELSE {n}

\* n's children are driven only through n: no object outside n's graph holds
\* a pointer into it, and the driver holds no handle into it
DrivenOnlyThrough(p, n) ==
    /\ \A m \in Nodes(p) \ Reach(p, n) :
          Kind(p, m) \in {"Pipeline", "Combiner"} =>
             {First(p, m), Second(p, m)} \cap (Reach(p, n) \ {n}) = {}
    /\ Handles[p] \cap (Reach(p, n) \ {n}) = {}

\* the heap right after construction
Fresh(p) ==
    [ _is_finalized |-> [n \in Nodes(p) |-> Constructed(p, n)],
      _count |-> [n \in Nodes(p) |-> 0],
      _data_to_val |-> [n \in Nodes(p) |-> <<>>],
      _data |-> [n \in Nodes(p) |-> <<>>],
      sent |-> [n \in Nodes(p) |-> <<>>],
      dataset |-> [n \in Nodes(p) |-> <<>>],
      finalize_calls |-> [n \in Nodes(p) |-> 0],
      first_seen |-> [n \in Nodes(p) |-> <<>>],
      early_steps |-> [n \in Nodes(p) |-> 0],
      log |-> <<>>,
      thrown |-> FALSE ]

\* n->step(s[1]); ...; n->step(s[Len(s)]) by a driver that holds n itself
RECURSIVE Fit(_, _, _, _)
Fit(p, h, n, s) ==
    IF s = <<>> THEN h ELSE Fit(p, step(p, h, n, Head(s)), n, Tail(s))

\* A fitted alone on the samples s and finalized
FitAlone(p, n, s) == finalize(p, Fit(p, Fresh(p), n, s), n)

IsVector(val) == val.k = "vector"
OneHot(k, pos) == Vec([i \in 1..k |-> IF i = pos + 1 THEN 1 ELSE 0])
Ones(val) == Cardinality({i \in 1..Len(val.v) : val.v[i] = 1})

(***************************************************************************)
(* C1. Pipeline correctness.  For a pipeline of an A and a B that both     *)
(* need fitting and are driven only through it, after step(s1) .. step(sn) *)
(* and one finalize(), transform(x) = B'.transform(A'.transform(x)) for    *)
(* every x, where A' is A fitted alone on s1..sn and finalized and B' is B *)
(* fitted alone on A'.transform(s1) .. A'.transform(sn) and finalized.     *)
(***************************************************************************)
FittedFirst(p, n) == FitAlone(p, First(p, n), dataset[n])
FittedSecond(p, n) ==
    FitAlone(p, Second(p, n),
             [i \in 1..Len(dataset[n]) |->
                 transform(p, FittedFirst(p, n), First(p, n), dataset[n][i])])

BothNeedFitting(p, n) ==
    ~Constructed(p, First(p, n)) /\ ~Constructed(p, Second(p, n))

C1_PipelineCorrectness ==
    \A n \in Pipelines(prog) :
        (/\ BothNeedFitting(prog, n)
         /\ DrivenOnlyThrough(prog, n)
         /\ finalize_calls[n] = 1)
        => \A x \in Samples :
              transform(prog, Heap, n, x)
                = transform(prog, FittedSecond(prog, n), Second(prog, n),
                            transform(prog, FittedFirst(prog, n), First(prog, n), x))

\* binarizer + binarizer fitted on three distinct samples, finalized once, and
\* a transform has returned a one-hot vector
C1_Witness ==
    /\ prog = "bin_bin"
    /\ finalize_calls[3] = 1
    /\ Len(dataset[3]) = 3 /\ _count[1] = 3
    /\ ret.op = "transform" /\ IsVector(ret.val)

(***************************************************************************)
(* C2. End-to-end scenario of main.cpp: root = (firstname | lastname) +    *)
(* Binarizer, stepped on data1..data4 in that order and finalized once;    *)
(* transform on the i-th record returns the i-th unit vector of length 4.  *)
(***************************************************************************)
MainFitted ==
    /\ prog = "main"
    /\ dataset[5] = <<data1, data2, data3, data4>>
    /\ finalize_calls[5] = 1

MainExpected(x) ==
    CASE x = data1 -> Vec(<<1, 0, 0, 0>>)
      [] x = data2 -> Vec(<<0, 1, 0, 0>>)
      [] x = data3 -> Vec(<<0, 0, 1, 0>>)
      [] x = data4 -> Vec(<<0, 0, 0, 1>>)

C2_EndToEnd ==
    (MainFitted /\ ret.op = "transform") => ret.val = MainExpected(ret.arg)

C2_Witness ==
    MainFitted /\ ret.op = "transform" /\ ret.arg = data4
    /\ ret.val = Vec(<<0, 0, 0, 1>>)

(***************************************************************************)
(* C3. Binarizer one-hot.  After any sequence of step calls holding k      *)
(* distinct values, transform of each of them is a vector of length k with *)
(* exactly one 1, at the 0-based rank of the value's first appearance, and *)
(* 0 elsewhere; the k vectors are pairwise distinct.                       *)
(***************************************************************************)
C3_BinarizerOneHot ==
    \A n \in Binarizers(prog) :
        LET k == Len(first_seen[n])
            out(i) == transform(prog, Heap, n, first_seen[n][i])
        IN  /\ \A i \in 1..k :
                  /\ IsVector(out(i))
                  /\ Len(out(i).v) = k
                  /\ Ones(out(i)) = 1
                  /\ out(i) = OneHot(k, i - 1)
            /\ \A i, j \in 1..k : i # j => out(i) # out(j)

\* a Binarizer stepped on four distinct values has returned the last unit vector
C3_Witness ==
    /\ prog = "binarizer"
    /\ Len(first_seen[1]) = 4
    /\ ret.op = "transform" /\ ret.arg = first_seen[1][4]
    /\ ret.val = Vec(<<0, 0, 0, 1>>)

(***************************************************************************)
(* C4. Combiner output ordering.  (A|B).transform(x) is the pair           *)
(* (A.transform(x), B.transform(x)); a tree of | over scalar-output        *)
(* operands yields the flat tuple of the operands' outputs in left-to-     *)
(* right source order, whatever the nesting; over vector-output operands   *)
(* it yields their concatenation in that order.                            *)
(***************************************************************************)
\* the operands of a tree of |, left to right
RECURSIVE Operands(_, _)
Operands(p, n) ==
    IF Kind(p, n) = "Combiner"
    THEN Operands(p, First(p, n)) \o Operands(p, Second(p, n))
    ELSE <<n>>

RECURSIVE Concat(_)
Concat(vs) == IF vs = <<>> THEN <<>> ELSE Head(vs).v \o Concat(Tail(vs))

OperandOutputs(p, h, n, x) ==
    [i \in 1..Len(Operands(p, n)) |-> transform(p, h, Operands(p, n)[i], x)]

C4_CombinerOrdering ==
    \A n \in Combiners(prog) : \A x \in Samples :
        LET outs == OperandOutputs(prog, Heap, n, x)
        IN  (\A i \in 1..Len(outs) : outs[i] # OutOfRange) =>
               /\ (\A i \in 1..Len(outs) : outs[i].k = "string")
                     => transform(prog, Heap, n, x) = Tup(outs)
               /\ (\A i \in 1..Len(outs) : outs[i].k = "vector")
                     => transform(prog, Heap, n, x) = Vec(Concat(outs))

\* firstname | (firstname | lastname) has returned the flat triple
C4_Witness ==
    /\ prog = "comb3_right"
    /\ ret.op = "transform" /\ ret.node = 4 /\ ret.arg = data1
    /\ ret.val = Tup(<<Str("Mike"), Str("Mike"), Str("Jordan")>>)

C6_FinalizeIdempotent ==
    [][\A r \in Handles[prog] :
          (Finalize(r) /\ finalize_calls[r] >= 1) =>
             /\ _count' = _count
             /\ _data_to_val' = _data_to_val
             /\ \A m \in Handles[prog], x \in Samples :
                   transform(prog, Heap', m, x) = transform(prog, Heap, m, x)]_vars

\* the pipeline of main.cpp, fitted on two samples, right after its second
\* finalize()
C6_Witness ==
    /\ prog = "main"
    /\ finalize_calls[5] = 2
    /\ ret.op = "finalize"
    /\ _count[3] = 2

(***************************************************************************)
(* C7. step() after finalize() is a no-op for every component: once        *)
(* finalize() has been called on a transformer, a later step(sample) on it *)
(* changes neither its state nor the state of its children.                *)
(***************************************************************************)
C7_StepAfterFinalizeIsNoOp ==
    [][\A r \in Handles[prog], sample \in Samples :
          (Step(r, sample) /\ finalize_calls[r] >= 1) =>
             /\ _count' = _count
             /\ _data_to_val' = _data_to_val
             /\ _data' = _data
             /\ _is_finalized' = _is_finalized]_vars

(***************************************************************************)
(* C8. Binarizer.finalize() sets the finalized flag: a Binarizer on which  *)
(* finalize() has been called reports is_finalized() = true.               *)
(***************************************************************************)
C8_BinarizerFinalizeSetsFlag ==
    \A n \in Binarizers(prog) : finalize_calls[n] >= 1 => _is_finalized[n]

(***************************************************************************)
(* C9. The finalized flag is monotone: no step, finalize or transform sets *)
(* a flag that is true back to false, on any node.                         *)
(***************************************************************************)
C9_FlagMonotone ==
    [][\A n \in Nodes(prog) : _is_finalized[n] => _is_finalized'[n]]_vars

\* a pipeline that was not finalized at construction is finalized, and step()
\* has been called on it since
C9_Witness ==
    /\ prog = "main"
    /\ ~Constructed(prog, 5) /\ _is_finalized[5]
    /\ ret.op = "step" /\ ret.node = 5

(***************************************************************************)
(* C10. After Pipeline.finalize() has returned, the buffer of a pipeline   *)
(* whose children are driven only through it is empty, whatever number of  *)
(* step calls came before.                                                 *)
(***************************************************************************)
C10_BufferEmptyAfterFinalize ==
    \A n \in Pipelines(prog) :
        (DrivenOnlyThrough(prog, n) /\ finalize_calls[n] >= 1) => _data[n] = <<>>

\* binarizer + binarizer buffered three samples and its finalize() has returned
C10_Witness ==
    /\ prog = "bin_bin"
    /\ Len(dataset[3]) = 3 /\ Len(sent[3]) = 3
    /\ finalize_calls[3] = 1
    /\ ret.op = "finalize" /\ ret.val = Void
    /\ _data[3] = <<>>

(***************************************************************************)
(* C11: Binarizer::transform of a value that step() never received throws  *)
(* (unordered_map::at) -- it yields no vector at all -- and the failed     *)
(* call leaves the level map and the count as they were.                   *)
(***************************************************************************)
C11_UnknownCategoryThrows ==
    [][\A r \in Handles[prog], x \in Inputs[prog] :
          /\ Transform(r, x)
          /\ Kind(prog, r) = "Binarizer"
          /\ x \notin DOMAIN _data_to_val[r]
          => /\ ret'.val = OutOfRange
             /\ _data_to_val' = _data_to_val
             /\ _count' = _count]_vars

\* a Binarizer that has seen two values was asked for a third and threw
C11_Witness ==
    /\ prog = "binarizer"
    /\ _count[1] = 2
    /\ ret.op = "transform"
    /\ ret.arg \notin DOMAIN _data_to_val[1]
    /\ ret.val = OutOfRange

(***************************************************************************)
(* C12: a Pipeline made with + from two transformers that are finalized at *)
(* construction (two LazyTransformers) is finalized from construction on,  *)
(* and with no step and no finalize made, its transform(x) is              *)
(* second.transform(first.transform(x)): for lastname + length, the length *)
(* of the last name.                                                       *)
(***************************************************************************)
C12_LazyPipelineReady ==
    /\ \A n \in Pipelines(prog) :
          /\ Kind(prog, First(prog, n)) = "LazyTransformer"
          /\ Kind(prog, Second(prog, n)) = "LazyTransformer"
          => _is_finalized[n]
    /\ prog = "lazy_lazy" /\ ret.op = "transform"
       => ret.val = length_lambda(get_lastname_lambda(ret.arg))

\* transform on the freshly built lastname + length gave 6 for "Jordan"
C12_Witness ==
    /\ prog = "lazy_lazy"
    /\ dataset[3] = <<>>
    /\ finalize_calls[3] = 0
    /\ ret.op = "transform"
    /\ ret.arg = data1
    /\ ret.val = Num(6)

(***************************************************************************)
(* C13: step() on a Pipeline whose own flag is set returns at once: it     *)
(* makes no further call (no _first->step, no _second->step, nothing is    *)
(* handed to _second, nothing throws) and the buffer and the state of      *)
(* every object are as before.                                             *)
(***************************************************************************)
C13_FinalizedPipelineStepIsNoOp ==
    [][\A r \in Handles[prog], x \in Inputs[prog] :
          /\ Step(r, x)
          /\ Kind(prog, r) = "Pipeline"
          /\ _is_finalized[r]
          => /\ log' = << <<"step", r>> >>
             /\ ret'.val = Void
             /\ sent' = sent
             /\ _data' = _data
             /\ _count' = _count
             /\ _data_to_val' = _data_to_val
             /\ _is_finalized' = _is_finalized]_vars

\* binarizer + binarizer, fitted on two samples and finalized, was stepped
\* again: neither Binarizer carries a flag that would have stopped the call
C13_Witness ==
    /\ prog = "bin_bin"
    /\ _is_finalized[3] /\ ~_is_finalized[1] /\ ~_is_finalized[2]
    /\ Len(dataset[3]) = 2
    /\ ret.op = "step" /\ ret.node = 3
    /\ log = << <<"step", 3>> >>

(***************************************************************************)
(* C14: the buffer of a Pipeline never holds more samples than the step()  *)
(* calls the Pipeline received while its _first was not finalized; the     *)
(* buffer grows only by a step() made while neither _first nor _second is  *)
(* finalized, and then by that one sample; a step() made once _first is    *)
(* finalized leaves the buffer as it was.                                  *)
(***************************************************************************)
C14_BufferBound ==
    [][\A n \in Pipelines(prog) :
          /\ Len(_data'[n]) <= early_steps'[n]
          /\ Len(_data'[n]) > Len(_data[n])
             => /\ ret'.op = "step"
                /\ ~_is_finalized[First(prog, n)]
                /\ ~_is_finalized[Second(prog, n)]
                /\ Len(_data'[n]) = Len(_data[n]) + 1
                /\ SubSeq(_data'[n], 1, Len(_data[n])) = _data[n]
                /\ _data'[n][Len(_data'[n])] \in Inputs[prog]
          /\ ret'.op = "step" /\ _is_finalized[First(prog, n)]
             => _data'[n] = _data[n]]_vars

\* p = (firstname | lastname) + binarizer buffered one sample; then the
\* Combiner was finalized through q, and the next step of p went past the
\* buffer
C14_Witness ==
    /\ prog = "shared_first"
    /\ ret.op = "step" /\ ret.node = 5
    /\ _is_finalized[3] /\ ~_is_finalized[5]
    /\ Len(dataset[5]) = 2
    /\ early_steps[5] = 1
    /\ Len(_data[5]) = 1

(***************************************************************************)
(* C15: FIFO replay.  A finalize() of a Pipeline whose _second is not yet  *)
(* finalized finalizes _first (when it is not finalized) before the first  *)
(* replay, hands the buffered samples -- which are in the order step()     *)
(* received them -- to _second->step in that order, each transformed by    *)
(* the finalized _first, calls _second->finalize() once and after the last *)
(* replay, and sets the Pipeline's own flag last.                          *)
(***************************************************************************)
\* where in the call log lg the call e stands
Positions(lg, e) == {i \in 1..Len(lg) : lg[i] = e}

C15_FifoReplay ==
    [][\A r \in Handles[prog] :
          /\ Finalize(r)
          /\ Kind(prog, r) = "Pipeline"
          /\ ~_is_finalized[Second(prog, r)]
          => LET replays == Positions(log', <<"step", Second(prog, r)>>)
                 first_finalize == Positions(log', <<"finalize", First(prog, r)>>)
                 second_finalize == Positions(log', <<"finalize", Second(prog, r)>>)
             IN  /\ ret'.val = Void
                 /\ _data[r] = SubSeq(dataset[r], 1, Len(_data[r]))
                 /\ Cardinality(replays) = Len(_data[r])
                 /\ sent'[r] = sent[r] \o
                        [i \in 1..Len(_data[r]) |->
                            transform(prog, Heap', First(prog, r), _data[r][i])]
                 /\ Cardinality(first_finalize) =
                        IF _is_finalized[First(prog, r)] THEN 0 ELSE 1
                 /\ \A i \in first_finalize, j \in replays : i < j
                 /\ Cardinality(second_finalize) = 1
                 /\ \A i \in replays, j \in second_finalize : i < j
                 /\ log'[Len(log')] = <<"set", r>>
                 /\ _is_finalized'[r]]_vars

\* (binarizer + binarizer) + binarizer, finalized after two distinct samples:
\* the inner Pipeline is finalized (its own replay included) before the outer
\* one replays
C15_Witness ==
    /\ prog = "deep"
    /\ ret.op = "finalize" /\ ret.node = 5 /\ ret.val = Void
    /\ Len(sent[5]) = 2 /\ sent[5][1] # sent[5][2]
    /\ log = << <<"finalize", 5>>, <<"finalize", 3>>, <<"finalize", 1>>,
                <<"step", 2>>, <<"step", 2>>, <<"finalize", 2>>, <<"set", 3>>,
                <<"step", 4>>, <<"step", 4>>, <<"finalize", 4>>, <<"set", 5>> >>

(***************************************************************************)
(* C16: the level map of a Binarizer.  After every call _count is the      *)
(* number of keys of _data_to_val, the indices are exactly 0 .. _count-1,  *)
(* no two keys share an index, and a key keeps the index it was given      *)
(* (the map only grows); a step() with a value that is already a key       *)
(* changes neither the map nor the count.                                  *)
(***************************************************************************)
C16_LevelMapInvariant ==
    [][/\ \A n \in Binarizers(prog) :
             /\ _count'[n] = Cardinality(DOMAIN _data_to_val'[n])
             /\ {_data_to_val'[n][v] : v \in DOMAIN _data_to_val'[n]}
                    = 0..(_count'[n] - 1)
             /\ \A v, w \in DOMAIN _data_to_val'[n] :
                    _data_to_val'[n][v] = _data_to_val'[n][w] => v = w
             /\ \A v \in DOMAIN _data_to_val[n] :
                    /\ v \in DOMAIN _data_to_val'[n]
                    /\ _data_to_val'[n][v] = _data_to_val[n][v]
       /\ \A r \in Handles[prog], x \in Inputs[prog] :
             /\ Step(r, x)
             /\ Kind(prog, r) = "Binarizer"
             /\ x \in DOMAIN _data_to_val[r]
             => /\ _data_to_val' = _data_to_val
                /\ _count' = _count]_vars

\* a Binarizer that received three samples, one of them twice
C16_Witness ==
    /\ prog = "binarizer"
    /\ ret.op = "step"
    /\ Len(dataset[1]) = 3
    /\ _count[1] = 2
    /\ Len(first_seen[1]) = 2

(***************************************************************************)
(* C17: order preservation under sharing.  For a Pipeline whose _first is  *)
(* a composite that needs fitting, the values handed to _second are the    *)
(* transformed samples in the order step() received them -- the i-th value *)
(* handed over comes from the i-th sample presented -- also when another   *)
(* composite that shares _first finalizes it between two steps.            *)
(***************************************************************************)
C17_OrderPreservedUnderSharing ==
    \A n \in Pipelines(prog) :
        /\ Kind(prog, First(prog, n)) \in {"Pipeline", "Combiner"}
        /\ ~Constructed(prog, First(prog, n))
        => /\ Len(sent[n]) <= Len(dataset[n])
           /\ sent[n] = [i \in 1..Len(sent[n]) |->
                            transform(prog, Heap, First(prog, n), dataset[n][i])]

(***************************************************************************)
(* C18: buffer release under sharing.  Once finalize() was called on a     *)
(* Pipeline, its buffer is empty and its flag is set -- also when its      *)
(* _second, a composite that needs fitting, was finalized before through   *)
(* another composite that shares it.                                       *)
(***************************************************************************)
C18_BufferReleasedUnderSharing ==
    \A n \in Pipelines(prog) :
        /\ Kind(prog, Second(prog, n)) \in {"Pipeline", "Combiner"}
        /\ finalize_calls[n] >= 1
        => /\ _data[n] = <<>>
           /\ _is_finalized[n]

(***************************************************************************)
(* C19: the flag of a composite at construction.  Right after the program  *)
(* is built, every Pipeline and every Combiner reports is_finalized()      *)
(* true when both its children report true, and false when a child         *)
(* reports false.                                                          *)
(***************************************************************************)
C19_CompositeFlagAtConstruction ==
    ret.op = "new" =>
        \A n \in Pipelines(prog) \cup Combiners(prog) :
            _is_finalized[n] =
                (_is_finalized[First(prog, n)] /\ _is_finalized[Second(prog, n)])

(***************************************************************************)
(* C20: the replay never meets an unknown category.  In a Pipeline whose   *)
(* _first is a Binarizer, every sample in the buffer is a key of the       *)
(* Binarizer's level map, so the _first->transform of the replay does not  *)
(* throw: no finalize() that reaches such a Pipeline returns with an       *)
(* exception.                                                              *)
(***************************************************************************)
C20_ReplayNeverUnknown ==
    \A n \in Pipelines(prog) :
        Kind(prog, First(prog, n)) = "Binarizer"
        => /\ \A i \in 1..Len(_data[n]) :
                 /\ _data[n][i] \in DOMAIN _data_to_val[First(prog, n)]
                 /\ transform(prog, Heap, First(prog, n), _data[n][i]) # OutOfRange
           /\ ret.op = "finalize" /\ n \in Reach(prog, ret.node)
              => ret.val = Void

\* (binarizer + binarizer) + binarizer: the inner Pipeline replayed three
\* distinct buffered samples through its Binarizer
C20_Witness ==
    /\ prog = "deep"
    /\ ret.op = "finalize" /\ ret.val = Void
    /\ _count[1] = 3
    /\ Len(sent[3]) = 3
    /\ _data[3] = <<>>

====
